---- MODULE Spec2Model ----
(***************************************************************************)
(* Model of src/sharepoint_aggregator.py: the folder aggregator's main()   *)
(* in its two modes (local filesystem, SharePoint), the two file listers,  *)
(* download_file, extract_data, add_questionnaire and export_to_excel.     *)
(*                                                                         *)
(* File names are sequences of one-character strings, so that the string   *)
(* tests of the listers (startswith, endswith, Path.suffix, lower) are     *)
(* computed as Python computes them.  A cell value is a tuple; the empty   *)
(* tuple stands for Python's None.                                         *)
(***************************************************************************)
EXTENDS Integers, Sequences, FiniteSets, TLC

VARIABLES mode, pc, temp_dir, scratch, folders, fi, dir_entries, excel_files,
          xi, all_data, open_workbooks, output, writes, export_ret, summary,
          discovered, attempted, extracted

vars == <<mode, pc, temp_dir, scratch, folders, fi, dir_entries, excel_files,
          xi, all_data, open_workbooks, output, writes, export_ret, summary,
          discovered, attempted, extracted>>

(***************************************************************************)
(* Bounds of the model.                                                    *)
(***************************************************************************)
\* the longest folder listing get_folders / get_folders_in_path returns
MaxFolders == 2
\* the largest number of directory entries of one folder
MaxFiles == 2

(***************************************************************************)
(* Strings.                                                                *)
(***************************************************************************)
\* str.lower() on one character
LowerChar(c) ==
    CASE c = "A" -> "a"
      [] c = "L" -> "l"
      [] c = "S" -> "s"
      [] c = "X" -> "x"
      [] OTHER -> c

\* str.lower()
lower(s) == [i \in 1..Len(s) |-> LowerChar(s[i])]

\* str.startswith(p)
startswith(s, p) == Len(s) >= Len(p) /\ SubSeq(s, 1, Len(p)) = p

\* str.endswith(p)
endswith(s, p) == Len(s) >= Len(p) /\ SubSeq(s, Len(s) - Len(p) + 1, Len(s)) = p

\* str.rfind('.'), 1-based; 0 when there is no dot
rfind_dot(s) ==
    LET dots == {i \in 1..Len(s) : s[i] = "."}
    IN IF dots = {} THEN 0 ELSE CHOOSE i \in dots : \A j \in dots : j <= i

\* pathlib's Path.suffix: the last dot and what follows it, unless the dot
\* is the first or the last character of the name
suffix(s) ==
    LET i == rfind_dot(s)
    IN IF 1 < i /\ i < Len(s) THEN SubSeq(s, i, Len(s)) ELSE <<>>

Xlsx == <<".", "x", "l", "s", "x">>
Xls == <<".", "x", "l", "s">>
TempMarker == <<"~", "$">>

\* the test of LocalFolderProcessor.get_excel_files_in_folder
LocalKeeps(e) ==
    /\ e.is_file
    /\ lower(suffix(e.name)) \in {Xlsx, Xls}
    /\ ~startswith(e.name, TempMarker)

\* the test of SharePointConnector.get_excel_files_in_folder
SharePointKeeps(e) ==
    /\ (endswith(e.name, Xlsx) \/ endswith(e.name, Xls))
    /\ ~startswith(e.name, TempMarker)

\* LocalFolderProcessor.get_excel_files_in_folder: the entries kept, in
\* iteration order
LocalExcelFiles(entries) == SelectSeq(entries, LocalKeeps)

\* SharePointConnector.get_excel_files_in_folder
SharePointExcelFiles(entries) == SelectSeq(entries, SharePointKeeps)

(***************************************************************************)
(* The stores the run reads: directory entries and workbook contents.      *)
(***************************************************************************)
\* Python's None, and an empty cell
None == <<>>

NameA == <<"a", ".", "x", "l", "s", "x">>
NameB == <<"b", ".", "x", "l", "s">>
NameUpper == <<"A", ".", "X", "L", "S", "X">>
NameTemp == <<"~", "$", "a", ".", "x", "l", "s", "x">>
NameTxt == <<"n", ".", "t", "x", "t">>
NameDir == <<"d", ".", "x", "l", "s">>

\* One entry of a folder: its name, whether it is a regular file, whether
\* the store serves its bytes (File.open_binary succeeds), and what the
\* bytes are: a workbook whose cells are all filled ("full"), one with most
\* cells blank ("sparse"), a workbook whose active sheet cannot be indexed
\* ("chartsheet": load_workbook succeeds, sheet['B1'] raises), or bytes
\* load_workbook rejects ("corrupt").
Entry(n, f, d, w) == [name |-> n, is_file |-> f, dl_ok |-> d, wb |-> w]

\* the entries the folders of a run are made of
FileEntries ==
    { Entry(NameA, TRUE, TRUE, "full"),
      Entry(NameA, TRUE, FALSE, "full"),
      Entry(NameA, TRUE, TRUE, "chartsheet"),
      Entry(NameB, TRUE, TRUE, "sparse"),
      Entry(NameB, TRUE, TRUE, "corrupt"),
      Entry(NameTemp, TRUE, TRUE, "corrupt") }

\* a local file is never downloaded: dl_ok says nothing about it
LocalEntries == { e \in FileEntries : e.dl_ok }

\* the entries the two listers are compared on: the names above, an
\* upper-case extension, an extension that is not a spreadsheet's, and a
\* subdirectory (which Path.iterdir() yields and folder.files does not)
ListerEntries ==
    { Entry(NameA, TRUE, TRUE, "full"),
      Entry(NameB, TRUE, TRUE, "sparse"),
      Entry(NameUpper, TRUE, TRUE, "sparse"),
      Entry(NameTemp, TRUE, TRUE, "corrupt"),
      Entry(NameTxt, TRUE, TRUE, "corrupt"),
      Entry(NameDir, FALSE, TRUE, "corrupt") }

\* what iterating a folder can yield: at most MaxFiles entries, no two
\* with the same name
RECURSIVE ListingsOfLen(_, _)
ListingsOfLen(universe, n) ==
    IF n = 0 THEN { <<>> }
    ELSE { Append(l, e) : l \in ListingsOfLen(universe, n - 1), e \in universe }

DistinctNames(l) == \A i, j \in 1..Len(l) : i # j => l[i].name # l[j].name

Listings(universe) ==
    { l \in UNION { ListingsOfLen(universe, n) : n \in 0..MaxFiles } : DistinctNames(l) }

\* what iterating a folder of a run can yield, in either mode
LocalListings == Listings(LocalEntries)
SharePointListings == Listings(FileEntries)

\* what iterating the folder the listers are compared on can yield
ListerListings == Listings(ListerEntries)

\* the bytes of entry e of the folder named unit: every unit's workbook
\* holds its own values, so the bytes name the unit they belong to
Content(unit, e) == [kind |-> e.wb, tag |-> unit]

\* sheet[f'{col}{row}'].value on the active sheet of a loaded workbook
Cell(content, col, row) ==
    CASE content.kind = "full" -> <<content.tag, col, row>>
      [] content.kind = "sparse" ->
            IF \/ row = 1
               \/ row = 3 /\ col \in {"C", "D"}
               \/ row = 10 /\ col = "C"
            THEN <<content.tag, col, row>>
            ELSE None
      [] OTHER -> None

(***************************************************************************)
(* QuestionnaireExtractor.extract_data                                     *)
(***************************************************************************)
\* range(3, 20)
FirstRow == 3
StopRow == 20

\* the list the loop over range(3, 20) builds
QuestionsAnswers(content) ==
    [k \in 1..(StopRow - FirstRow) |->
        [question |-> Cell(content, "B", FirstRow + k - 1),
         answer   |-> Cell(content, "C", FirstRow + k - 1),
         comment  |-> Cell(content, "D", FirstRow + k - 1)]]

\* extract_data as it would be if the except branch returned what had been
\* read so far instead of None
extract_data_PartialOnError(content, source_folder) ==
    CASE content.kind = "corrupt" ->
            [ret |-> None, opened |-> 0, closed |-> 0]
      [] content.kind = "chartsheet" ->
            [ret |-> [source_folder |-> source_folder,
                      questions_answers |-> <<>>],
             opened |-> 1, closed |-> 0]
      [] OTHER ->
            [ret |-> [source_folder |-> source_folder,
                      application |-> Cell(content, "B", 1),
                      responsible |-> Cell(content, "C", 1),
                      deputy |-> Cell(content, "D", 1),
                      questions_answers |-> QuestionsAnswers(content)],
             opened |-> 1, closed |-> 1]

\* extract_data(file_path, source_folder), content being the bytes at
\* file_path: the value returned, and how many workbooks the call opened
\* and closed.  load_workbook raises on corrupt bytes (nothing was opened);
\* on a chartsheet the reads raise after the workbook was opened, and the
\* except branch returns None without reaching workbook.close().
extract_data(content, source_folder) ==
    CASE content.kind = "corrupt" ->
            [ret |-> None, opened |-> 0, closed |-> 0]
      [] content.kind = "chartsheet" ->
            [ret |-> None, opened |-> 1, closed |-> 0]
      [] OTHER ->
            [ret |-> [source_folder |-> source_folder,
                      application |-> Cell(content, "B", 1),
                      responsible |-> Cell(content, "C", 1),
                      deputy |-> Cell(content, "D", 1),
                      questions_answers |-> QuestionsAnswers(content)],
             opened |-> 1, closed |-> 1]

\* Python's truth value of what extract_data returns: None and the empty
\* dict are false
Truthy(data) == data # None /\ DOMAIN data # {}

(***************************************************************************)
(* DataAggregator                                                          *)
(***************************************************************************)
\* add_questionnaire as it would be with all_data.insert(0, data)
add_questionnaire_Prepend(all, data) ==
    IF Truthy(data) THEN <<data>> \o all ELSE all

\* add_questionnaire(data): the new all_data
add_questionnaire(all, data) == IF Truthy(data) THEN Append(all, data) ELSE all

\* A Python dict is a sequence of <<key, value>> pairs in insertion order.
DictKeys(d) == [i \in 1..Len(d) |-> d[i][1]]

DictHas(d, k) == \E i \in 1..Len(d) : d[i][1] = k

\* d[k]
DictGet(d, k) == d[CHOOSE i \in 1..Len(d) : d[i][1] = k][2]

\* Column labels: f'Q{i}' is <<"Q", i>>, f'COMM Q{i}' is <<"COMM Q", i>>,
\* and a fixed label carries index 0.
Col(label) == <<label, 0>>

\* for i, qa in enumerate(qas, start=1): row[f'{label}{i}'] = qa[field]
\* The labels of distinct i differ, so the loop's result is: every key the
\* row already has keeps its place and takes the value of its i, and
\* the other labels follow in the order of i.
EnumerateInto(row, qas, label, field) ==
    LET idx(k) == CHOOSE i \in 1..Len(qas) : k = <<label, i>>
        labelled(k) == \E i \in 1..Len(qas) : k = <<label, i>>
        kept == [j \in 1..Len(row) |->
                    IF labelled(row[j][1])
                    THEN <<row[j][1], qas[idx(row[j][1])][field]>>
                    ELSE row[j]]
        added == SelectSeq([i \in 1..Len(qas) |-> <<<<label, i>>, qas[i][field]>>],
                           LAMBDA p : ~DictHas(row, p[1]))
    IN kept \o added

\* the row as it would be with the two enumerate loops in the other order
BuildRow_CommentsFirst(data) ==
    LET base == << <<Col("Application"), data.application>>,
                   <<Col("Answered"), data.responsible>>,
                   <<Col("App Responsible"), data.responsible>>,
                   <<Col("Deputy"), data.deputy>> >>
        withComments == EnumerateInto(base, data.questions_answers, "COMM Q", "comment")
    IN EnumerateInto(withComments, data.questions_answers, "Q", "answer")

\* the row export_to_excel builds for one record
BuildRow(data) ==
    LET base == << <<Col("Application"), data.application>>,
                   <<Col("Answered"), data.responsible>>,
                   <<Col("App Responsible"), data.responsible>>,
                   <<Col("Deputy"), data.deputy>> >>
        withAnswers == EnumerateInto(base, data.questions_answers, "Q", "answer")
    IN EnumerateInto(withAnswers, data.questions_answers, "COMM Q", "comment")

\* pd.DataFrame(rows).columns: the keys of the rows in order of first
\* appearance
RECURSIVE Columns(_, _, _)
Columns(rows, r, acc) ==
    IF r > Len(rows) THEN acc
    ELSE LET keys == DictKeys(rows[r])
             fresh == SelectSeq(keys, LAMBDA k : \A j \in 1..Len(acc) : acc[j] # k)
         IN Columns(rows, r + 1, acc \o fresh)

\* pd.DataFrame(rows).to_excel(output_file, index=False): a header row and
\* one data row per dict; a key a dict lacks gives an empty cell
DataFrame(rows) ==
    LET cols == Columns(rows, 1, <<>>)
    IN [header |-> cols,
        rows |-> [r \in 1..Len(rows) |->
                    [c \in 1..Len(cols) |->
                        IF DictHas(rows[r], cols[c])
                        THEN DictGet(rows[r], cols[c]) ELSE None]]]

\* rows = []; for data in self.all_data: ...; rows.append(row)
RECURSIVE BuildRows(_, _, _)
BuildRows(all, i, rows) ==
    IF i > Len(all) THEN rows
    ELSE BuildRows(all, i + 1, Append(rows, BuildRow(all[i])))

\* export_to_excel(output_file) on all_data: whether output_file is
\* written, the table written, and the value returned (None on both paths:
\* a bare return, and the end of the function body)
export_to_excel(all) ==
    IF all = <<>>
    THEN [wrote |-> FALSE, table |-> None, ret |-> None]
    ELSE [wrote |-> TRUE,
          table |-> DataFrame(BuildRows(all, 1, <<>>)),
          ret |-> None]

(***************************************************************************)
(* SharePointConnector.download_file                                       *)
(***************************************************************************)
\* open(local_path, 'wb') and write: the file at local_path now holds
\* exactly content, whatever it held before
WriteFile(dir, local_path, content) ==
    [p \in DOMAIN dir \cup {local_path} |->
        IF p = local_path THEN content ELSE dir[p]]

\* download_file(file_url, local_path) for entry e of the folder named
\* unit, dir being the files of the scratch directory: the value returned
\* and the files afterwards.  When File.open_binary raises, local_path is
\* never opened and the except branch returns False.
download_file(unit, e, dir, local_path) ==
    IF e.dl_ok
    THEN [ret |-> TRUE, dir |-> WriteFile(dir, local_path, Content(unit, e))]
    ELSE [ret |-> FALSE, dir |-> dir]

(***************************************************************************)
(* main                                                                    *)
(***************************************************************************)
NoFiles == [p \in {} |-> None]

\* the folder objects a listing of n folders returns
Unit(i) == <<"Unit", i>>
FolderList(n) == [i \in 1..n |-> Unit(i)]

Traversing == pc \in {"get_folders", "folder_loop", "file_loop", "extract"}

Init ==
    /\ mode \in {"local", "sharepoint"}
    /\ pc = "start"
    /\ temp_dir = "none"
    /\ scratch = NoFiles
    /\ folders = <<>>
    /\ fi = 1
    /\ dir_entries = <<>>
    /\ excel_files = <<>>
    /\ xi = 1
    /\ all_data = <<>>
    /\ open_workbooks = 0
    /\ output = None
    /\ writes = 0
    /\ export_ret = "not called"
    /\ summary = None
    /\ discovered = <<>>
    /\ attempted = <<>>
    /\ extracted = <<>>

\* local mode up to the aggregator's construction
StartLocal ==
    /\ pc = "start" /\ mode = "local"
    /\ pc' = "get_folders"
    /\ UNCHANGED <<mode, temp_dir, scratch, folders, fi, dir_entries,
                   excel_files, xi, all_data, open_workbooks, output, writes,
                   export_ret, summary, discovered, attempted, extracted>>

\* sharepoint mode: connect() succeeds, the aggregator is constructed and
\* the with statement creates the temporary directory
ConnectAndEnter ==
    /\ pc = "start" /\ mode = "sharepoint"
    /\ pc' = "get_folders"
    /\ temp_dir' = "exists"
    /\ scratch' = NoFiles
    /\ UNCHANGED <<mode, folders, fi, dir_entries, excel_files, xi, all_data,
                   open_workbooks, output, writes, export_ret, summary,
                   discovered, attempted, extracted>>

\* sharepoint mode: connect() returns False and main exits with status 1
ConnectFails ==
    /\ pc = "start" /\ mode = "sharepoint"
    /\ pc' = "exit1"
    /\ UNCHANGED <<mode, temp_dir, scratch, folders, fi, dir_entries,
                   excel_files, xi, all_data, open_workbooks, output, writes,
                   export_ret, summary, discovered, attempted, extracted>>

\* get_folders() / get_folders_in_path(): the listing, or [] when the
\* listing raises
GetFolders ==
    /\ pc = "get_folders"
    /\ \/ \E n \in 0..MaxFolders : folders' = FolderList(n)
       \/ folders' = <<>>
    /\ fi' = 1
    /\ pc' = "folder_loop"
    /\ UNCHANGED <<mode, temp_dir, scratch, dir_entries, excel_files, xi,
                   all_data, open_workbooks, output, writes, export_ret,
                   summary, discovered, attempted, extracted>>

\* folder.files: the files of the folder, without its subfolders
FolderFiles(entries) == SelectSeq(entries, LAMBDA e : e.is_file)

\* get_excel_files_in_folder of the mode, on the entries of the folder
get_excel_files_in_folder(entries) ==
    IF mode = "local"
    THEN LocalExcelFiles(entries)
    ELSE SharePointExcelFiles(FolderFiles(entries))

\* the records of the files of a listing, under the folder they were found in
Found(unit, files) == [i \in 1..Len(files) |-> [folder |-> unit, file |-> files[i]]]

\* one iteration of the folder loop up to the file loop: the folder is
\* iterated inside get_excel_files_in_folder, which returns the Excel
\* files it keeps
ListFiles ==
    /\ pc = "folder_loop" /\ fi <= Len(folders)
    /\ \E entries \in (IF mode = "local" THEN LocalListings ELSE SharePointListings) :
          excel_files' = get_excel_files_in_folder(entries)
    /\ discovered' = discovered \o Found(folders[fi], excel_files')
    /\ xi' = 1
    /\ pc' = "file_loop"
    /\ UNCHANGED <<mode, temp_dir, scratch, folders, fi, dir_entries, all_data,
                   open_workbooks, output, writes, export_ret, summary,
                   attempted, extracted>>

\* iterating the folder raises inside get_excel_files_in_folder, which
\* returns []
ListFilesFails ==
    /\ pc = "folder_loop" /\ fi <= Len(folders)
    /\ excel_files' = <<>>
    /\ xi' = 1
    /\ pc' = "file_loop"
    /\ UNCHANGED <<mode, temp_dir, scratch, folders, fi, dir_entries, all_data,
                   open_workbooks, output, writes, export_ret, summary,
                   discovered, attempted, extracted>>

\* what main does with the value extract_data returned
Collect(all, data) == IF Truthy(data) THEN add_questionnaire(all, data) ELSE all

\* local mode, one iteration of the file loop: extract_data on the file's
\* own path
ProcessLocalFile ==
    /\ pc = "file_loop" /\ mode = "local" /\ xi <= Len(excel_files)
    /\ LET unit == folders[fi]
           file == excel_files[xi]
           content == Content(unit, file)
       IN \E res \in {extract_data(content, unit)} :
          /\ all_data' = Collect(all_data, res.ret)
          /\ open_workbooks' = open_workbooks + res.opened - res.closed
          /\ attempted' = Append(attempted, [folder |-> unit, file |-> file])
          /\ extracted' = Append(extracted,
                [folder |-> unit, file |-> file, content |-> content])
    /\ xi' = xi + 1
    /\ UNCHANGED <<mode, pc, temp_dir, scratch, folders, fi, dir_entries,
                   excel_files, output, writes, export_ret, summary, discovered>>

\* main as it would be if it ignored the value download_file returned
AfterDownload_ResultIgnored(ok) == "extract"

\* what main does with the value download_file returned
AfterDownload(ok) == IF ok THEN "extract" ELSE "file_loop"

\* sharepoint mode, first half of an iteration of the file loop:
\* download_file to temp_dir/<file name>
DownloadFile ==
    /\ pc = "file_loop" /\ mode = "sharepoint" /\ xi <= Len(excel_files)
    /\ LET unit == folders[fi]
           file == excel_files[xi]
           res == download_file(unit, file, scratch, file.name)
       IN /\ scratch' = res.dir
          /\ pc' = AfterDownload(res.ret)
          /\ xi' = IF pc' = "extract" THEN xi ELSE xi + 1
          /\ attempted' = Append(attempted, [folder |-> unit, file |-> file])
    /\ UNCHANGED <<mode, temp_dir, folders, fi, dir_entries, excel_files,
                   all_data, open_workbooks, output, writes, export_ret,
                   summary, discovered, extracted>>

\* sharepoint mode, second half: extract_data on temp_dir/<file name>
ExtractDownloaded ==
    /\ pc = "extract"
    /\ LET unit == folders[fi]
           file == excel_files[xi]
           content == IF file.name \in DOMAIN scratch
                      THEN scratch[file.name]
                      ELSE [kind |-> "corrupt", tag |-> None]
       IN \E res \in {extract_data(content, unit)} :
          /\ all_data' = Collect(all_data, res.ret)
          /\ open_workbooks' = open_workbooks + res.opened - res.closed
          /\ extracted' = Append(extracted,
                [folder |-> unit, file |-> file, content |-> content])
    /\ xi' = xi + 1
    /\ pc' = "file_loop"
    /\ UNCHANGED <<mode, temp_dir, scratch, folders, fi, dir_entries,
                   excel_files, output, writes, export_ret, summary,
                   discovered, attempted>>

\* the end of the file loop as it would be if main exported after every
\* folder
EndFiles_ExportingEachFolder ==
    /\ pc = "file_loop" /\ xi > Len(excel_files)
    /\ fi' = fi + 1
    /\ pc' = "folder_loop"
    /\ \E res \in {export_to_excel(all_data)} :
          /\ output' = IF res.wrote THEN res.table ELSE output
          /\ writes' = IF res.wrote THEN writes + 1 ELSE writes
          /\ export_ret' = res.ret
    /\ UNCHANGED <<mode, temp_dir, scratch, folders, dir_entries, excel_files, xi,
                   all_data, open_workbooks, summary, discovered, attempted,
                   extracted>>

\* the file loop ends and the folder loop moves on
EndFiles ==
    /\ pc = "file_loop" /\ xi > Len(excel_files)
    /\ fi' = fi + 1
    /\ pc' = "folder_loop"
    /\ UNCHANGED <<mode, temp_dir, scratch, folders, dir_entries, excel_files, xi,
                   all_data, open_workbooks, output, writes, export_ret,
                   summary, discovered, attempted, extracted>>

\* the removal as it would be with a mkdtemp() and an rmtree() after the
\* folder loop instead of a with statement
LeaveTempDir_OnlyAfterLoop ==
    IF mode = "sharepoint" /\ pc = "folder_loop" /\ fi > Len(folders)
    THEN "removed" ELSE temp_dir

\* leaving the with statement removes the temporary directory and every
\* file in it
LeaveTempDir == IF mode = "sharepoint" THEN "removed" ELSE temp_dir

\* the folder loop ends; in sharepoint mode the with block ends with it
EndFolders ==
    /\ pc = "folder_loop" /\ fi > Len(folders)
    /\ temp_dir' = LeaveTempDir
    /\ scratch' = NoFiles
    /\ pc' = "export"
    /\ UNCHANGED <<mode, folders, fi, dir_entries, excel_files, xi, all_data,
                   open_workbooks, output, writes, export_ret, summary,
                   discovered, attempted, extracted>>

\* aggregator.export_to_excel(output_file) and the closing print of main
Export ==
    /\ pc = "export"
    /\ \E res \in {export_to_excel(all_data)} :
          /\ output' = IF res.wrote THEN res.table ELSE output
          /\ writes' = IF res.wrote THEN writes + 1 ELSE writes
          /\ export_ret' = res.ret
    /\ summary' = [processed |-> Len(all_data)]
    /\ pc' = "done"
    /\ UNCHANGED <<mode, temp_dir, scratch, folders, fi, dir_entries,
                   excel_files, xi, all_data, open_workbooks, discovered,
                   attempted, extracted>>

\* an exception that no "except Exception" catches (KeyboardInterrupt,
\* SystemExit) is raised during the traversal and leaves main; in
\* sharepoint mode it passes through the with statement
Interrupt ==
    /\ Traversing
    /\ temp_dir' = LeaveTempDir
    /\ scratch' = NoFiles
    /\ pc' = "aborted"
    /\ UNCHANGED <<mode, folders, fi, dir_entries, excel_files, xi, all_data,
                   open_workbooks, output, writes, export_ret, summary,
                   discovered, attempted, extracted>>

Next ==
    \/ StartLocal
    \/ ConnectAndEnter
    \/ ConnectFails
    \/ GetFolders
    \/ ListFiles
    \/ ListFilesFails
    \/ ProcessLocalFile
    \/ DownloadFile
    \/ ExtractDownloaded
    \/ EndFiles
    \/ EndFolders
    \/ Export
    \/ Interrupt

Spec == Init /\ [][Next]_vars

(***************************************************************************)
(* The two listers on their own: get_excel_files_in_folder of either       *)
(* variant is called on a folder holding dir_entries.                      *)
(***************************************************************************)
ListerInit ==
    /\ mode \in {"local", "sharepoint"}
    /\ pc = "lister"
    /\ dir_entries \in ListerListings
    /\ temp_dir = "none"
    /\ scratch = NoFiles
    /\ folders = <<>>
    /\ fi = 1
    /\ excel_files = <<>>
    /\ xi = 1
    /\ all_data = <<>>
    /\ open_workbooks = 0
    /\ output = None
    /\ writes = 0
    /\ export_ret = "not called"
    /\ summary = None
    /\ discovered = <<>>
    /\ attempted = <<>>
    /\ extracted = <<>>

\* LocalFolderProcessor.get_excel_files_in_folder(folder_path)
LocalList ==
    /\ pc = "lister" /\ mode = "local"
    /\ excel_files' = get_excel_files_in_folder(dir_entries)
    /\ pc' = "listed"
    /\ UNCHANGED <<mode, temp_dir, scratch, folders, fi, dir_entries, xi,
                   all_data, open_workbooks, output, writes, export_ret,
                   summary, discovered, attempted, extracted>>

\* SharePointConnector.get_excel_files_in_folder(folder_url)
SharePointList ==
    /\ pc = "lister" /\ mode = "sharepoint"
    /\ excel_files' = get_excel_files_in_folder(dir_entries)
    /\ pc' = "listed"
    /\ UNCHANGED <<mode, temp_dir, scratch, folders, fi, dir_entries, xi,
                   all_data, open_workbooks, output, writes, export_ret,
                   summary, discovered, attempted, extracted>>

ListerNext == LocalList \/ SharePointList

ListerSpec == ListerInit /\ [][ListerNext]_vars

(***************************************************************************)
(* Properties.                                                             *)
(***************************************************************************)
\* a discovered file whose download (sharepoint mode) and extraction succeed
Succeeds(d) ==
    /\ mode = "sharepoint" => d.file.dl_ok
    /\ d.file.wb \in {"full", "sparse"}

\* the record of a discovered file, read off the cells of its workbook
RecordOf(unit, content) ==
    [source_folder |-> unit,
     application |-> Cell(content, "B", 1),
     responsible |-> Cell(content, "C", 1),
     deputy |-> Cell(content, "D", 1),
     questions_answers |->
        [k \in 1..17 |-> [question |-> Cell(content, "B", k + 2),
                          answer   |-> Cell(content, "C", k + 2),
                          comment  |-> Cell(content, "D", k + 2)]]]

ExpectedData ==
    LET good == SelectSeq(discovered, Succeeds)
    IN [k \in 1..Len(good) |->
            RecordOf(good[k].folder, Content(good[k].folder, good[k].file))]

\* a step of the traversal other than an escaping exception
TraversalStep ==
    \/ GetFolders
    \/ ListFiles
    \/ ListFilesFails
    \/ ProcessLocalFile
    \/ DownloadFile
    \/ ExtractDownloaded
    \/ EndFiles
    \/ EndFolders

\* C1: whatever listings, downloads and extractions fail, the traversal
\* can always take its next step until export_to_excel is reached; when it
\* is reached every folder has been visited, every listed file has been
\* attempted exactly once in discovery order, and all_data holds exactly
\* the records of the files whose download and extraction succeeded, in
\* discovery order.
C1_SuccessfulFilesInDiscoveryOrder ==
    /\ Traversing => ENABLED TraversalStep
    /\ pc \in {"export", "done"} =>
          /\ fi = Len(folders) + 1
          /\ attempted = discovered
          /\ all_data = ExpectedData

\* C1 witness: a sharepoint run reached the export after a failed download
\* and a failed extraction that each precede a successful file
C1_Witness ==
    /\ pc = "done" /\ mode = "sharepoint"
    /\ \E i, j, k \in 1..Len(discovered) :
          /\ i < k /\ j < k
          /\ ~discovered[i].file.dl_ok
          /\ discovered[j].file.dl_ok /\ ~Succeeds(discovered[j])
          /\ Succeeds(discovered[k])
    /\ Len(all_data) >= 1

ExpectedHeader ==
    <<Col("Application"), Col("Answered"), Col("App Responsible"), Col("Deputy")>>
    \o [i \in 1..17 |-> <<"Q", i>>]
    \o [i \in 1..17 |-> <<"COMM Q", i>>]

\* C2: an export of a non-empty all_data writes the header Application,
\* Answered, App Responsible, Deputy, Q1..Q17, COMM Q1..COMM Q17 and one
\* row per record in the order of all_data; in row r, Q<i> is the answer
\* and COMM Q<i> the comment of question row i-1 of record r.
C2_OneRowPerRecordFixedColumns ==
    (pc = "done" /\ all_data # <<>>) =>
        /\ output.header = ExpectedHeader
        /\ Len(output.rows) = Len(all_data)
        /\ \A r \in 1..Len(all_data) :
              /\ Len(output.rows[r]) = 38
              /\ output.rows[r][1] = all_data[r].application
              /\ output.rows[r][2] = all_data[r].responsible
              /\ output.rows[r][3] = all_data[r].responsible
              /\ output.rows[r][4] = all_data[r].deputy
              /\ \A i \in 1..17 :
                    /\ output.rows[r][4 + i] = all_data[r].questions_answers[i].answer
                    /\ output.rows[r][21 + i] = all_data[r].questions_answers[i].comment

\* C2 witness: an export of two records with identical metadata, one of
\* them with blank answers
C2_Witness ==
    /\ pc = "done" /\ writes = 1
    /\ \E r1, r2 \in 1..Len(all_data) :
          /\ r1 < r2
          /\ all_data[r1].application = all_data[r2].application
          /\ all_data[r1].responsible = all_data[r2].responsible
          /\ all_data[r1].deputy = all_data[r2].deputy
          /\ all_data[r1].questions_answers[2].answer # None
          /\ all_data[r2].questions_answers[2].answer = None
          /\ output.rows[r1][6] # output.rows[r2][6]

\* the claim's test of a name: no '~$' at its start, and .xlsx or .xls at
\* its end whatever the case of the letters
ClaimedExcel(name) ==
    /\ ~startswith(name, TempMarker)
    /\ endswith(lower(name), Xlsx) \/ endswith(lower(name), Xls)

\* C3: either lister returns a file of the folder if and only if its name
\* does not begin with '~$' and its extension, compared case-insensitively,
\* is .xlsx or .xls.
C3_ListersKeepExactlyExcelNames ==
    pc = "listed" =>
        { excel_files[i].name : i \in 1..Len(excel_files) }
          = { dir_entries[i].name :
                i \in { j \in 1..Len(dir_entries) :
                          /\ dir_entries[j].is_file
                          /\ ClaimedExcel(dir_entries[j].name) } }

\* a report of one record
OneRecordReport ==
    << RecordOf(Unit(1), [kind |-> "full", tag |-> Unit(1)]) >>

\* C4: export_to_excel on an empty all_data writes nothing, and the value
\* main receives from it differs from the value a writing export returns.
C4_EmptyExportDistinguishable ==
    (pc = "done" /\ all_data = <<>>) =>
        /\ writes = 0
        /\ output = None
        /\ export_ret # export_to_excel(OneRecordReport).ret

\* C5: the output is written at most once, and only by the export that
\* follows the whole traversal: while the traversal is in progress, and
\* after a run that an exception cut short, nothing has been written.
C5_OutputOnlyAfterTraversal ==
    /\ writes <= 1
    /\ pc # "done" => (writes = 0 /\ output = None)
    /\ writes = 1 =>
          /\ fi = Len(folders) + 1
          /\ attempted = discovered
          /\ output # None

\* C5 witness: a finished run over two folders wrote its output once
C5_Witness ==
    /\ pc = "done" /\ writes = 1
    /\ Len(folders) >= 2
    /\ Len(all_data) >= 2

\* C6: in sharepoint mode the temporary directory does not exist before
\* the with statement, exists in every state of the traversal (so before
\* the first folder is listed and at every download and extraction), and
\* is gone with all its files once the traversal is left, by its end or by
\* an exception.
C6_TempDirLivesWithTraversal ==
    mode = "sharepoint" =>
        /\ pc \in {"start", "exit1"} => (temp_dir = "none" /\ scratch = NoFiles)
        /\ Traversing => temp_dir = "exists"
        /\ DOMAIN scratch # {} => temp_dir = "exists"
        /\ pc \in {"export", "done", "aborted"} =>
              (temp_dir = "removed" /\ scratch = NoFiles)

\* C6 witness: an exception left the traversal after a failed and a
\* successful download, and the directory is gone
C6_Witness ==
    /\ mode = "sharepoint" /\ pc = "aborted"
    /\ temp_dir = "removed"
    /\ \E i, j \in 1..Len(attempted) :
          ~attempted[i].file.dl_ok /\ attempted[j].file.dl_ok
    /\ extracted # <<>>

\* C7: at the end of the run the counters units, files, records and
\* failures are surfaced, and files = records + failures.
C7_CountersSurfaced ==
    pc = "done" =>
        /\ {"units", "files", "records", "failures"} \subseteq DOMAIN summary
        /\ summary.files = summary.records + summary.failures

\* C8: no workbook is left open after any call of extract_data.
C8_NoWorkbookLeftOpen == open_workbooks = 0

\* the calls of extract_data that returned a record
GoodExtractions == SelectSeq(extracted, LAMBDA x : x.content.kind \in {"full", "sparse"})

\* C9: all_data holds one record per extraction that succeeded and none
\* for one that failed; every record has the five keys and exactly 17
\* question rows, row k holding the cells of source row k + 2, blank or
\* not; add_questionnaire on an absent result leaves all_data as it is.
C9_RecordsAreComplete ==
    LET good == GoodExtractions
    IN /\ Len(all_data) = Len(good)
       /\ \A r \in 1..Len(all_data) :
             /\ DOMAIN all_data[r] =
                   {"source_folder", "application", "responsible", "deputy",
                    "questions_answers"}
             /\ Len(all_data[r].questions_answers) = 17
             /\ all_data[r].questions_answers =
                   [k \in 1..17 |->
                       [question |-> Cell(good[r].content, "B", k + 2),
                        answer   |-> Cell(good[r].content, "C", k + 2),
                        comment  |-> Cell(good[r].content, "D", k + 2)]]
       /\ add_questionnaire(all_data, None) = all_data

\* C9 witness: a record with blank cells is held, after an extraction
\* that failed once the workbook was open
C9_Witness ==
    /\ \E x \in 1..Len(extracted) : extracted[x].content.kind = "chartsheet"
    /\ \E r \in 1..Len(all_data) :
          /\ all_data[r].questions_answers[17].answer = None
          /\ all_data[r].questions_answers[8].answer # None

\* C10: in sharepoint mode every call of extract_data reads the bytes of
\* the very file of its iteration, whose download succeeded.
C10_ExtractReadsOwnDownload ==
    mode = "sharepoint" =>
        \A x \in 1..Len(extracted) :
            /\ extracted[x].file.dl_ok
            /\ extracted[x].content = Content(extracted[x].folder, extracted[x].file)

\* C10 witness: a download failed for a name under which an earlier
\* folder's file still lies in the temporary directory, and a later
\* download under that name was extracted
C10_Witness ==
    /\ mode = "sharepoint" /\ pc = "file_loop"
    /\ \E i, j \in 1..Len(attempted) :
          /\ i < j
          /\ attempted[i].file.name = attempted[j].file.name
          /\ attempted[i].folder # attempted[j].folder
          /\ attempted[i].file.dl_ok
          /\ ~attempted[j].file.dl_ok
    /\ \E x, y \in 1..Len(extracted) :
          /\ x < y
          /\ extracted[x].file.name = extracted[y].file.name

====
